---- MODULE Spec2Model ----
(***************************************************************************)
(* Model of the NSF post-processing glue of Matcha-TTS:                    *)
(*   matcha/cli.py                    NSFHead, to_waveform                 *)
(*   matcha/data/text_mel_datamodule.py                                    *)
(*                    SSLFeatureExtractor, RMVPEOnnxPitchExtractor         *)
(* Arrays are records [shape, dtype, at]; `at` maps 1-based index tuples   *)
(* to values.  Float values are integers small enough to be exact in       *)
(* float32; frequencies are in Hz, mel values in 1/1000 mel, waveform      *)
(* samples in quarters (a sample q stands for q/4).                        *)
(* Every RuntimeError the code raises is tagged with the error kind of the *)
(* taxonomy that its raise site stands for.                                *)
(***************************************************************************)
EXTENDS Integers, Sequences, FiniteSets, TLC

\* nsfhead, ssl: the NSFHead and SSLFeatureExtractor objects a caller holds
\* last:         the call just made, with its arguments and its outcome
\* rng:          how many times np.random.randn has been called
\* run:          the position and the effects of one run of cli()
VARIABLES nsfhead, ssl, last, rng, run

vars == <<nsfhead, ssl, last, rng, run>>

----------------------------------------------------------------------------
(* Bounds of the model *)

MaxD == 2
MaxT == 2
MaxFrames == 2
MaxL == 3
MaxN == 3
MaxAudio == 3
MaxWav == 2
MaxDraws == 2
MaxCh == 2
MaxTexts == 3

(* Values the inputs are drawn from *)
MelValues == {0, 7}
MelDtypes == {"float32", "float64"}
Devices == {"cpu", "None", "cuda", "dml"}
SampleQuarters == {-4, -1, 4}
EngineF0Values == {0, 25, 440}
BufferValues == {0, 2200}
Keys == {0, 12}
SampleRates == {100, 200}

----------------------------------------------------------------------------
(* Errors *)

NoError == [kind |-> "none"]

\* No call is in progress and no result is held.
Idle == [op |-> "none"]

Err(k) == [kind |-> k]

----------------------------------------------------------------------------
(* numpy helpers *)

\* Conversion of the rational num/den (den > 0) to the integer below it
TruncFloor(num, den) == num \div den

\* C-style conversion of the rational num/den (den > 0) to an integer:
\* the fraction is dropped, towards zero.
Trunc(num, den) == IF num >= 0 THEN num \div den ELSE -((-num) \div den)

\* np.rint of the rational num/den (den > 0): nearest integer, ties to even.
Rint(num, den) ==
    LET q == num \div den
        r == num % den
    IN  IF 2 * r < den THEN q
        ELSE IF 2 * r > den THEN q + 1
        ELSE IF q % 2 = 0 THEN q ELSE q + 1

\* Two's complement wrap of an integer into 16 bits.
WrapInt16(x) == ((x + 32768) % 65536) - 32768

\* A [1,D,T] array from a function over (1..D) \X (1..T).
Tensor3(D, T, dtype, f) == [shape |-> <<1, D, T>>, dtype |-> dtype, at |-> f]

\* np.repeat(x, 2, axis=2) with the element order of np.tile: the whole time
\* axis is laid out twice instead of each frame twice.
RepeatTiled(x) ==
    LET D == x.shape[2]
        T == x.shape[3]
    IN  Tensor3(D, 2 * T, x.dtype,
                [p \in (1..D) \X (1..(2 * T)) |-> x.at[<<p[1], ((p[2] - 1) % T) + 1>>]])

\* np.repeat(x, 2, axis=2): every element of the last axis twice in a row.
Repeat(x) ==
    LET D == x.shape[2]
        T == x.shape[3]
    IN  Tensor3(D, 2 * T, x.dtype,
                [p \in (1..D) \X (1..(2 * T)) |-> x.at[<<p[1], (p[2] + 1) \div 2>>]])

\* x.transpose(0, 2, 1)
Transpose(x) ==
    LET A == x.shape[2]
        B == x.shape[3]
    IN  Tensor3(B, A, x.dtype, [p \in (1..B) \X (1..A) |-> x.at[<<p[2], p[1]>>]])

\* x.astype(dtype); the values of the model are exact in every float dtype.
AsType(x, dtype) == [x EXCEPT !.dtype = dtype]

\* np.repeat(hubert, 2, axis=2).transpose(0, 2, 1).astype(np.float32)
Align(mel) == AsType(Transpose(Repeat(mel)), "float32")

----------------------------------------------------------------------------
(* Pitch coarsening: cli.py to_waveform 196-199, 280-290 and               *)
(* text_mel_datamodule.py RMVPEOnnxPitchExtractor 50-53, 100-104           *)

\* 1127 * np.log(1 + f / 700), in 1/1000 mel, rounded to nearest, for the
\* frequencies that the buffers, the engine results and their shifts take
Mel(f) ==
    CASE f = 0    -> 0
      [] f = 25   -> 39548
      [] f = 50   -> 77755
      [] f = 220  -> 308002
      [] f = 440  -> 549642
      [] f = 880  -> 917490
      [] f = 1100 -> 1064408
      [] f = 2200 -> 1601902

f0_min == 50
f0_max == 1100
f0_mel_min == Mel(f0_min)
f0_mel_max == Mel(f0_max)

\* A value of the f0_mel array as the rational num/den.
Rat(n, d) == [num |-> n, den |-> d]

\* f0_mel[f0_mel > 0] = (f0_mel[f0_mel > 0] - f0_mel_min) * 254 / (f0_mel_max - f0_mel_min) + 1
Rescale(m) ==
    IF m > 0
    THEN Rat((m - f0_mel_min) * 254 + (f0_mel_max - f0_mel_min), f0_mel_max - f0_mel_min)
    ELSE Rat(m, 1000)

\* The lower clip writing 0, the reserved "no pitch" code, instead of 1.
ClipLowToZero(v) == IF v.num <= v.den THEN Rat(0, 1) ELSE v

\* f0_mel[f0_mel <= 1] = 1
ClipLow(v) == IF v.num <= v.den THEN Rat(1, 1) ELSE v

\* f0_mel[f0_mel > 255] = 255
ClipHigh(v) == IF v.num > 255 * v.den THEN Rat(255, 1) ELSE v

\* One element of np.rint(f0_mel).astype(int) for the frequency f
Coarse(f) ==
    LET v == ClipHigh(ClipLow(Rescale(Mel(f))))
    IN  Rint(v.num, v.den)

\* A 1-D or [1,n] array with flat data
Array(shape, dtype, data) == [shape |-> shape, dtype |-> dtype, data |-> data]

\* The coarse codes of a whole pitch array, as a 1-D int64 array
CoarseArray(pitchf) ==
    Array(<<Len(pitchf.data)>>, "int64", [i \in 1..Len(pitchf.data) |-> Coarse(pitchf.data[i])])

\* np.full(n, 220) sized by the mel frame count instead of the hubert one
FullHalf(n, v) == Array(<<n \div 2>>, "int64", [i \in 1..(n \div 2) |-> v])

\* np.full(n, v)
Full(n, v) == Array(<<n>>, "int64", [i \in 1..n |-> v])

\* pow(2, f0_up_key / 12) applied to f, for the keys that are whole octaves
Shift(f, key) ==
    CASE key = 0   -> f
      [] key = 12  -> 2 * f

\* x.reshape(1, len(x))
Reshape1(x) == [x EXCEPT !.shape = <<1, Len(x.data)>>]

----------------------------------------------------------------------------
(* NSFHead: cli.py 41-103 *)

PcmScale == 32767

\* The device test letting every device through.
DeviceSupportedAny(device) == device \in Devices

\* device == "cpu" or device is None
DeviceSupported(device) == device = "cpu" \/ device = "None"

Absent == [state |-> "absent"]

\* The provider choice and onnxruntime.InferenceSession(...) of NSFHead.__init__
\* and SSLFeatureExtractor.__init__: the object holding the session, or the
\* error raised.  `loadFails` is whether onnxruntime fails to load the model file.
NewSession(device, loadFails) ==
    IF ~DeviceSupported(device)
    THEN [error |-> Err("UnsupportedDeviceError"), sessionCreated |-> FALSE, obj |-> Absent]
    ELSE IF loadFails
    THEN [error |-> Err("EngineError"), sessionCreated |-> FALSE, obj |-> Absent]
    ELSE [error |-> NoError, sessionCreated |-> TRUE,
          obj |-> [state |-> "ready", providers |-> <<"CPUExecutionProvider">>]]

\* (x * 32768).astype(np.int16) of the sample q/4
ToPcm16Pow2(q) == WrapInt16(Trunc(q * 32768, 4))

\* (x * 32767).astype(np.int16) of the sample q/4
ToPcm16(q) == WrapInt16(Trunc(q * PcmScale, 4))

\* What the external engine does on one run: raise, or return a waveform.
EngineOutcomes ==
    {[raises |-> TRUE, wav |-> <<>>]} \cup
    {[raises |-> FALSE, wav |-> w] : w \in UNION {[1..n -> SampleQuarters] : n \in 1..MaxWav}}

\* NSFHead.forward: the six inputs go to the engine, its output becomes PCM.
Forward(hubert, hubert_length, pitch, pitchf, ds, rnd, eng) ==
    [engineIn |-> [hubert |-> hubert, hubert_length |-> hubert_length, pitch |-> pitch,
                   pitchf |-> pitchf, ds |-> ds, rnd |-> rnd],
     error |-> IF eng.raises THEN Err("EngineError") ELSE NoError,
     pcm |-> IF eng.raises THEN <<>> ELSE [i \in 1..Len(eng.wav) |-> ToPcm16(eng.wav[i])]]

\* np.random.randn(...) handing out the first draw of the process again
RandnCached(d0, d1, d2) == [shape |-> <<d0, d1, d2>>, dtype |-> "float64", draw |-> 1]

\* np.random.randn(d0, d1, d2): the next draw of the process-wide generator
Randn(d0, d1, d2) == [shape |-> <<d0, d1, d2>>, dtype |-> "float64", draw |-> rng + 1]

\* NSFHead.inference
Inference(hubertIn, pitchfIn, pitchIIn, eng) ==
    LET sid == 0
        hubert == hubertIn
        hubert_length == hubert.shape[2]
        pitch == [pitchIIn EXCEPT !.dtype = "int64"]
        pitchf == [pitchfIn EXCEPT !.dtype = "float32"]
        ds == Array(<<1>>, "int64", <<sid>>)
        rnd == AsType(Randn(1, 192, hubert_length), "float32")
        hl == Array(<<1>>, "int64", <<hubert_length>>)
        fw == Forward(hubert, hl, pitch, pitchf, ds, rnd, eng)
    IN  [engineInvoked |-> TRUE,
         engineIn |-> fw.engineIn,
         pcm |-> fw.pcm,
         \* out_wav.squeeze() of a one-sample output is 0-d and out_wav[0:] fails
         error |-> IF fw.error # NoError THEN fw.error
                   ELSE IF Len(fw.pcm) = 1 THEN Err("IndexError") ELSE NoError,
         out |-> IF fw.error = NoError /\ Len(fw.pcm) # 1 THEN fw.pcm ELSE <<>>]

----------------------------------------------------------------------------
(* to_waveform: cli.py 194-306 *)

ToWaveformResult(mel, loadFails, eng) ==
    LET hubert == Align(mel)
        hubert_length == hubert.shape[2]
        f0_up_key == 0
        pitchf0 == Full(hubert_length, 220)
        pitchf1 == Array(pitchf0.shape, "float64",
                         [i \in 1..Len(pitchf0.data) |-> Shift(pitchf0.data[i], f0_up_key)])
        pitch0 == CoarseArray(pitchf1)
        pitchf == AsType(Reshape1(pitchf1), "float32")
        pitch == Reshape1(pitch0)
        head == NewSession("cpu", loadFails)
        inf == Inference(hubert, pitchf, pitch, eng)
    IN  IF head.error # NoError
        THEN [op |-> "to_waveform", mel |-> mel, hubert |-> hubert, pitchf |-> pitchf,
              pitch |-> pitch, sessionCreated |-> FALSE, engineInvoked |-> FALSE,
              wav |-> <<>>, pcm |-> <<>>, error |-> head.error, out |-> <<>>]
        ELSE [op |-> "to_waveform", mel |-> mel, hubert |-> hubert, pitchf |-> pitchf,
              pitch |-> pitch, sessionCreated |-> TRUE, engineInvoked |-> inf.engineInvoked,
              engineIn |-> inf.engineIn, wav |-> eng.wav, pcm |-> inf.pcm,
              error |-> inf.error, out |-> inf.out]

Mels ==
    UNION {{Tensor3(D, T, dt, f) : f \in [(1..D) \X (1..T) -> MelValues], dt \in MelDtypes} :
           D \in 0..MaxD, T \in 0..MaxT}

ToWaveform ==
    /\ last = Idle
    /\ rng < MaxDraws
    /\ \E mel \in Mels, loadFails \in BOOLEAN, eng \in EngineOutcomes :
        /\ last' = ToWaveformResult(mel, loadFails, eng)
        /\ rng' = IF loadFails THEN rng ELSE rng + 1
    /\ UNCHANGED <<nsfhead, ssl, run>>

----------------------------------------------------------------------------
(* Direct use of NSFHead *)

NSFHeadInit ==
    /\ last = Idle
    /\ \E device \in Devices, loadFails \in BOOLEAN :
        LET r == NewSession(device, loadFails)
        IN  /\ last' = [op |-> "NSFHead.__init__", device |-> device, loadFails |-> loadFails, obj |-> r.obj, error |-> r.error,
                        sessionCreated |-> r.sessionCreated]
            /\ nsfhead' = IF r.error = NoError
                          THEN r.obj @@ [sampling_rate |-> 40000]
                          ELSE nsfhead
            /\ UNCHANGED <<ssl, rng, run>>

\* Arrays of a given shape whose content does not matter to the adapter
Blank3(F, D, dt) == Tensor3(F, D, dt, [p \in (1..F) \X (1..D) |-> 0])
Blank2(n, dt, v) == Array(<<1, n>>, dt, [i \in 1..n |-> v])

NSFHeadInference ==
    /\ last = Idle
    /\ nsfhead.state = "ready"
    /\ rng < MaxDraws
    /\ \E F \in 0..MaxFrames, P \in 0..MaxFrames, Pf \in 0..MaxFrames,
          hdt \in MelDtypes, pdt \in {"int64", "float64"}, pfdt \in {"float32", "float64"},
          eng \in EngineOutcomes :
        LET hubertIn == Blank3(F, 1, hdt)
            pitchfIn == Blank2(Pf, pfdt, 220)
            pitchIIn == Blank2(P, pdt, 60)
            r == Inference(hubertIn, pitchfIn, pitchIIn, eng)
        IN  last' = [op |-> "NSFHead.inference", hubertIn |-> hubertIn, pitchfIn |-> pitchfIn,
                     pitchIIn |-> pitchIIn, engineInvoked |-> r.engineInvoked,
                     engineIn |-> r.engineIn, pcm |-> r.pcm, wav |-> eng.wav,
                     error |-> r.error, out |-> r.out]
    /\ rng' = rng + 1
    /\ UNCHANGED <<nsfhead, ssl, run>>

----------------------------------------------------------------------------
(* SSLFeatureExtractor: text_mel_datamodule.py 22-44 *)

SSLInit ==
    /\ last = Idle
    /\ \E device \in Devices, loadFails \in BOOLEAN :
        LET r == NewSession(device, loadFails)
        IN  /\ last' = [op |-> "SSLFeatureExtractor.__init__", device |-> device, loadFails |-> loadFails, obj |-> r.obj,
                        error |-> r.error, sessionCreated |-> r.sessionCreated]
            /\ ssl' = IF r.error = NoError THEN r.obj ELSE ssl
            /\ UNCHANGED <<nsfhead, rng, run>>

\* The index tuples of an array of the given shape (up to 3 axes)
Indices(shape) ==
    CASE Len(shape) = 0 -> {<<>>}
      [] Len(shape) = 1 -> {<<i>> : i \in 1..shape[1]}
      [] Len(shape) = 2 -> (1..shape[1]) \X (1..shape[2])
      [] Len(shape) = 3 -> (1..shape[1]) \X (1..shape[2]) \X (1..shape[3])

NdArray(shape, dtype, f) == [shape |-> shape, dtype |-> dtype, at |-> f]

\* x[i, 1] + ... + x[i, c] of a 2-D array
RECURSIVE RowSum(_, _, _)
RowSum(x, i, c) == IF c = 0 THEN 0 ELSE RowSum(x, i, c - 1) + x.at[<<i, c>>]

\* The channels of each position added up and not divided by their count
SumLast(x) ==
    NdArray(<<x.shape[1]>>, x.dtype,
            [p \in Indices(<<x.shape[1]>>) |-> Rat(RowSum(x, p[1], x.shape[2]), 1)])

\* feats.mean(-1) of a 2-D array: the average over the last axis, as the
\* rational sum/count, one value per position of the first axis
MeanLast(x) ==
    NdArray(<<x.shape[1]>>, x.dtype,
            [p \in Indices(<<x.shape[1]>>) |-> Rat(RowSum(x, p[1], x.shape[2]), x.shape[2])])

\* np.expand_dims(np.expand_dims(feats, 0), 0) of a 1-D array
ExpandDims2(x) ==
    NdArray(<<1, 1, x.shape[1]>>, x.dtype,
            [p \in Indices(<<1, 1, x.shape[1]>>) |-> x.at[<<p[3]>>]])

\* What the representation engine does on one run: raise, or return logits
\* of shape [1, depth, frames]; element [d, f] is 10 * d + f.
SSLOutcomes ==
    {[raises |-> TRUE, logits |-> <<>>]} \cup
    {[raises |-> FALSE,
      logits |-> Tensor3(D, F, "float32", [q \in (1..D) \X (1..F) |-> 10 * q[1] + q[2]])] :
        D \in 1..MaxD, F \in 0..MaxFrames}

\* SSLFeatureExtractor.forward
SSLForwardResult(wav, eng) ==
    LET feats == IF Len(wav.shape) = 2 THEN MeanLast(wav) ELSE wav
        input == ExpandDims2(feats)
    IN  IF Len(feats.shape) # 1
        THEN [op |-> "SSLFeatureExtractor.forward", wav |-> wav, engineInvoked |-> FALSE,
              engineIn |-> <<>>, error |-> Err("ShapeError"), out |-> <<>>]
        ELSE IF eng.raises
        THEN [op |-> "SSLFeatureExtractor.forward", wav |-> wav, engineInvoked |-> TRUE,
              engineIn |-> input, error |-> Err("EngineError"), out |-> <<>>]
        ELSE [op |-> "SSLFeatureExtractor.forward", wav |-> wav, engineInvoked |-> TRUE,
              engineIn |-> input, error |-> NoError, out |-> Transpose(eng.logits)]

SSLValues == {0, 3}

\* The arrays a caller passes: a scalar, 1-D audio, [samples, channels] audio
\* and a 3-D array
Wavs ==
    {NdArray(sh, "float32", f) :
        sh \in {<<>>, <<1, 1, 1>>}, f \in {[p \in Indices(<<>>) |-> 0]}} \cup
    UNION {{NdArray(<<N>>, "float32", f) : f \in [Indices(<<N>>) -> SSLValues]} :
           N \in 0..MaxAudio} \cup
    UNION {{NdArray(<<N, C>>, "float32", f) : f \in [Indices(<<N, C>>) -> SSLValues]} :
           N \in 0..MaxAudio, C \in 1..MaxCh}

SSLForward ==
    /\ last = Idle
    /\ ssl.state = "ready"
    /\ \E wav \in Wavs, eng \in SSLOutcomes :
        last' = SSLForwardResult(wav, eng)
    /\ UNCHANGED <<nsfhead, ssl, rng, run>>

----------------------------------------------------------------------------
(* RMVPEOnnxPitchExtractor.extract: text_mel_datamodule.py 57-109 *)

ClassName == "RMVPEOnnxPitchExtractor"

\* raise RuntimeError(f"Exception in {self.__class__.__name__}", e) without e
WrapNoCause(e) == [kind |-> "ExtractionError", className |-> ClassName, cause |-> NoError]

\* raise RuntimeError(f"Exception in {self.__class__.__name__}", e)
Wrap(e) == [kind |-> "ExtractionError", className |-> ClassName, cause |-> e]

\* The two dimensionality checks with the one on pitchf left out
DimErrorAudioOnly(audio, pitchf) ==
    IF Len(audio.shape) # 1 THEN Err("ShapeError") ELSE NoError

\* if audio.ndim != 1: raise ...; if pitchf.ndim != 1: raise ...
DimError(audio, pitchf) ==
    IF Len(audio.shape) # 1 THEN Err("ShapeError")
    ELSE IF Len(pitchf.shape) # 1 THEN Err("ShapeError")
    ELSE NoError

\* int(0.01 * sr), for sample rates that are multiples of 100
TargetFrameLength(sr) == sr \div 100

\* The lead-in grown by the warm-start offset int(silence_front * sr / window) * window
LeadInWarmStart(sr, window, silence_front) ==
    TargetFrameLength(sr) + ((silence_front * sr) \div window) * window

\* targetFrameLength as extract computes it: the lines reading silence_front
\* and window are commented out, only int(minimumFrames) is left
LeadIn(sr, window, silence_front) == TargetFrameLength(sr)

\* audio[targetFrameLength:]
Trim(data, n) == SubSeq(data, n + 1, Len(data))

\* What the pitch engine does on one run: raise, or return f0 of shape [1,n].
F0Outcomes ==
    {[raises |-> TRUE, f0 |-> <<>>]} \cup
    {[raises |-> FALSE, f0 |-> w] : w \in UNION {[1..n -> EngineF0Values] : n \in 0..MaxN}}

\* Number of elements that the slice x[-n:] of a length-L array selects
TailLen(L, n) == IF n = 0 \/ n >= L THEN L ELSE n

Min(a, b) == IF a < b THEN a ELSE b

\* The write that keeps the last values of an F0 longer than the buffer:
\* pitchf[-n:] = f0[-L:]
WriteTailLast(buf, f0) ==
    LET L == Len(buf)
        n == Len(f0)
    IN  IF n = 0 /\ L > 0 THEN [error |-> Err("ValueError"), data |-> buf]
        ELSE IF n >= L
        THEN [error |-> NoError, data |-> [i \in 1..L |-> f0[n - L + i]]]
        ELSE [error |-> NoError,
              data |-> [i \in 1..L |-> IF i <= L - n THEN buf[i] ELSE f0[i - (L - n)]]]

\* pitchf[-f0.shape[0]:] = f0[:pitchf.shape[0]] on the flat data: the buffer
\* after the write, or the numpy broadcast error.
WriteTail(buf, f0) ==
    LET L == Len(buf)
        n == Len(f0)
        tl == TailLen(L, n)
        sl == Min(n, L)
    IN  IF tl = sl
        THEN [error |-> NoError,
              data |-> [i \in 1..L |-> IF i <= L - tl THEN buf[i] ELSE f0[i - (L - tl)]]]
        ELSE IF sl = 1
        THEN [error |-> NoError,
              data |-> [i \in 1..L |-> IF i <= L - tl THEN buf[i] ELSE f0[1]]]
        ELSE [error |-> Err("ValueError"), data |-> buf]

\* The body of the try block.  The result names the error raised inside it,
\* whether the engine ran and on what, and the buffer as the body left it.
ExtractBody(audio, pitchf, f0_up_key, sr, window, silence_front, eng) ==
    LET dim == DimError(audio, pitchf)
        targetFrameLength == LeadIn(sr, window, silence_front)
        trimmed == Array(<<1, Len(Trim(audio.data, targetFrameLength))>>, "float32",
                         Trim(audio.data, targetFrameLength))
        n == Len(eng.f0)
        \* output[0].squeeze() drops every axis of length 1
        ndim == IF n = 1 THEN 0 ELSE 1
        f0 == [i \in 1..n |-> Shift(eng.f0[i], f0_up_key)]
        w == WriteTail(pitchf.data, f0)
        after == [pitchf EXCEPT !.data = w.data]
        none == [engineInvoked |-> FALSE, engineIn |-> <<>>, pitchf |-> pitchf,
                 f0_coarse |-> <<>>]
        ran == [engineInvoked |-> TRUE, engineIn |-> trimmed, pitchf |-> pitchf,
                f0_coarse |-> <<>>]
    IN  IF dim # NoError THEN [error |-> dim] @@ none
        ELSE IF eng.raises THEN [error |-> Err("EngineError")] @@ ran
        ELSE IF ndim = 0 THEN [error |-> Err("IndexError")] @@ ran
        ELSE IF w.error # NoError THEN [error |-> w.error] @@ ran
        ELSE [error |-> NoError, engineInvoked |-> TRUE, engineIn |-> trimmed,
              pitchf |-> after, f0_coarse |-> CoarseArray(after)]

\* extract: the try block, the except clause and the return
ExtractResult(audio, pitchf, f0_up_key, sr, window, silence_front, eng) ==
    LET b == ExtractBody(audio, pitchf, f0_up_key, sr, window, silence_front, eng)
    IN  [op |-> "extract", audio |-> audio, pitchfIn |-> pitchf, f0_up_key |-> f0_up_key,
         sr |-> sr, window |-> window, silence_front |-> silence_front, eng |-> eng,
         engineInvoked |-> b.engineInvoked, engineIn |-> b.engineIn,
         error |-> IF b.error # NoError THEN Wrap(b.error) ELSE NoError,
         returned |-> b.error = NoError,
         buffer |-> b.pitchf,
         f0_coarse |-> b.f0_coarse]

\* The audio arrays a caller passes: 1-D of every length, and one 2-D
Audios ==
    {Array(<<n>>, "float32", [i \in 1..n |-> i]) : n \in 0..MaxAudio} \cup
    {Array(<<1, MaxAudio>>, "float32", [i \in 1..MaxAudio |-> i])}

\* The pitch buffers a caller passes: 1-D of every content, and 2-D ones
Buffers ==
    UNION {{Array(<<L>>, "float32", d) : d \in [1..L -> BufferValues]} : L \in 0..MaxL} \cup
    {Array(<<1, L>>, "float32", [i \in 1..L |-> 0]) : L \in 1..MaxL}

\* The frame hops and the warm-start offsets (in seconds) a caller passes
Windows == {1, 160}
SilenceFronts == {0, 1}

Extract ==
    /\ last = Idle
    /\ \E audio \in Audios, pitchf \in Buffers, f0_up_key \in Keys, sr \in SampleRates,
       window \in Windows, silence_front \in SilenceFronts, eng \in F0Outcomes :
        last' = ExtractResult(audio, pitchf, f0_up_key, sr, window, silence_front, eng)
    /\ UNCHANGED <<nsfhead, ssl, rng, run>>

----------------------------------------------------------------------------
\* The caller is done with the result of a call; its arrays are discarded.
Discard ==
    /\ last # Idle
    /\ last' = Idle
    /\ UNCHANGED <<nsfhead, ssl, rng, run>>

----------------------------------------------------------------------------
(* save_to_folder: cli.py 309-315, plot_spectrogram_to_numpy: cli.py 105-113 *)

\* A path is absolute or relative, with its components; a relative path is
\* resolved against the working directory of the process when a file is opened
Resolve(cwd, path) == IF path.abs THEN path.parts ELSE cwd \o path.parts

\* The working directories of the process
Cwds == {<<"work">>, <<"home", "user">>}

\* The values of --output_folder: ".", "out", "/work" and "/data/out"
Folders ==
    {[abs |-> FALSE, parts |-> <<>>], [abs |-> FALSE, parts |-> <<"out">>],
     [abs |-> TRUE, parts |-> <<"work">>], [abs |-> TRUE, parts |-> <<"data", "out">>]}

\* base_name: utterance_NNN or utterance_NNN_speaker_SSS
BaseNames ==
    {[utterance |-> i, speaker |-> spk] :
        i \in 1..MaxTexts,
        spk \in {[given |-> FALSE, id |-> 0], [given |-> TRUE, id |-> 0], [given |-> TRUE, id |-> 1]}}

\* The call of save_to_folder that raises, if any
SaveFailures == {"none", "mkdir", "savefig", "np.save", "sf.write"}

\* The file a write creates: the directory it lands in, its name, and for a
\* sound file the rate and the sample format it is written with
File(dir, base, ext) == [dir |-> dir, base |-> base, ext |-> ext]

\* save_to_folder(filename, output, folder), called in working directory cwd
SaveToFolderResult(filename, folder, cwd, fails) ==
    LET dir == Resolve(cwd, folder)
        \* plt.savefig(f"{filename}.png"): a bare file name, no folder
        png == File(Resolve(cwd, [abs |-> FALSE, parts |-> <<>>]), filename, "png")
        \* np.save(folder / filename, ...) appends .npy
        npy == File(dir, filename, "npy")
        \* sf.write(folder / f"{filename}.wav", waveform, 40000, "PCM_24")
        wav == File(dir, filename, "wav") @@ [samplerate |-> 40000, subtype |-> "PCM_24"]
        files == CASE fails = "mkdir" -> {}
                   [] fails = "savefig" -> {}
                   [] fails = "np.save" -> {png}
                   [] fails = "sf.write" -> {png, npy}
                   [] fails = "none" -> {png, npy, wav}
    IN  [op |-> "save_to_folder", filename |-> filename, folder |-> folder, cwd |-> cwd,
         folderMade |-> fails # "mkdir",
         files |-> files,
         error |-> IF fails = "none" THEN NoError ELSE Err("SaveError"),
         out |-> IF fails = "none" THEN File(dir, filename, "wav") ELSE <<>>]

SaveToFolder ==
    /\ last = Idle
    /\ \E filename \in BaseNames, folder \in Folders, cwd \in Cwds, fails \in SaveFailures :
        last' = SaveToFolderResult(filename, folder, cwd, fails)
    /\ UNCHANGED <<nsfhead, ssl, rng, run>>

----------------------------------------------------------------------------
(* One run of cli(): cli.py 391-476, unbatched_synthesis_nsf: cli.py 598-648 *)

NotStarted == [pc |-> "not started"]

\* args.spk: absent, or a speaker id
Spks == {[given |-> FALSE, id |-> 0], [given |-> TRUE, id |-> 0], [given |-> TRUE, id |-> 1]}

\* The mels model.synthesise returns: float32, [1, n_feats, T], here with
\* one feature and every value 0
RunMels == {Tensor3(1, T, "float32", [p \in (1..1) \X (1..T) |-> 0]) : T \in 1..MaxT}

\* What the vocoder engine does for one utterance: raise, or return a
\* waveform of full-scale samples
RunEngineOutcomes ==
    {[raises |-> TRUE, wav |-> <<>>]} \cup
    {[raises |-> FALSE, wav |-> [i \in 1..n |-> 4]] : n \in 1..MaxWav}

\* The loop entered with every failure caught: the utterance is skipped
NextUtteranceSkipping(r, k, failed) ==
    [r EXCEPT !.i = k,
              !.failedAt = IF failed THEN k ELSE @,
              !.pc = IF k = r.n THEN "done" ELSE "loop"]

\* The position after utterance k: an exception leaves the loop and cli()
\* (nothing catches it), otherwise the loop goes on to k + 1 or ends
NextUtterance(r, k, failed) ==
    IF failed
    THEN [r EXCEPT !.i = k, !.failedAt = k, !.pc = "aborted"]
    ELSE [r EXCEPT !.i = k, !.pc = IF k = r.n THEN "done" ELSE "loop"]

\* cli() up to the call of unbatched_synthesis_nsf
Cli ==
    /\ last = Idle
    /\ run = NotStarted
    /\ \E n \in 0..MaxTexts, batched \in BOOLEAN, spk \in Spks, loadFails \in BOOLEAN :
        LET started == [pc |-> "loop", n |-> n, batched |-> batched, spk |-> spk, i |-> 0,
                        attempted |-> <<>>, written |-> <<>>, failedAt |-> 0,
                        sessions |-> 0, tw |-> Idle, error |-> NoError]
        IN  run' = IF loadFails
                   THEN [started EXCEPT !.pc = "aborted", !.error = Err("LoadError")]
                   ELSE IF n = 1 \/ ~batched
                   THEN [started EXCEPT !.pc = IF n = 0 THEN "done" ELSE "loop"]
                   \* the batched branch is commented out: cli() returns
                   ELSE [started EXCEPT !.pc = "done"]
    /\ UNCHANGED <<nsfhead, ssl, last, rng>>

\* One iteration of the loop of unbatched_synthesis_nsf
Utterance ==
    /\ last = Idle
    /\ run.pc = "loop"
    /\ \E modelFails \in BOOLEAN, mel \in RunMels, loadFails \in BOOLEAN,
          eng \in RunEngineOutcomes, saveFails \in BOOLEAN :
        LET k == run.i + 1
            begun == [run EXCEPT !.attempted = Append(@, k)]
            tw == ToWaveformResult(mel, loadFails, eng)
            vocoded == [begun EXCEPT !.tw = tw,
                                     !.sessions = IF tw.sessionCreated THEN @ + 1 ELSE @]
        IN  IF modelFails
            THEN /\ run' = NextUtterance([begun EXCEPT !.tw = Idle, !.error = Err("ModelError")], k, TRUE)
                 /\ rng' = rng
            ELSE /\ rng' = IF tw.engineInvoked THEN rng + 1 ELSE rng
                 /\ run' =
                        IF tw.error # NoError
                        THEN NextUtterance([vocoded EXCEPT !.error = tw.error], k, TRUE)
                        \* rtf_w = t * 22050 / waveform.shape[-1]
                        ELSE IF Len(tw.out) = 0
                        THEN NextUtterance([vocoded EXCEPT !.error = Err("ZeroDivisionError")], k, TRUE)
                        ELSE IF saveFails
                        THEN NextUtterance([vocoded EXCEPT !.error = Err("SaveError")], k, TRUE)
                        ELSE NextUtterance([vocoded EXCEPT !.written = Append(@, k),
                                                           !.error = NoError], k, FALSE)
    /\ UNCHANGED <<nsfhead, ssl, last>>


Init ==
    /\ nsfhead = Absent
    /\ ssl = Absent
    /\ last = Idle
    /\ rng = 0
    /\ run = NotStarted

\* The vocoder adapter and to_waveform, called directly
Next ==
    \/ Discard
    \/ ToWaveform
    \/ NSFHeadInit
    \/ NSFHeadInference
    \/ SSLInit

Spec == Init /\ [][Next]_vars

\* The pitch extractor
NextExtract ==
    \/ Discard
    \/ Extract

SpecExtract == Init /\ [][NextExtract]_vars

\* The pitch coarsening of the extractor and of to_waveform
NextCoarse ==
    \/ Discard
    \/ Extract
    \/ ToWaveform

SpecCoarse == Init /\ [][NextCoarse]_vars

\* The feature extractor
NextSSL ==
    \/ Discard
    \/ SSLInit
    \/ SSLForward

SpecSSL == Init /\ [][NextSSL]_vars

\* One run of the command line
NextRun ==
    \/ Cli
    \/ Utterance

SpecRun == Init /\ [][NextRun]_vars

\* The writing of one utterance's files
NextSave ==
    \/ Discard
    \/ SaveToFolder

SpecSave == Init /\ [][NextSave]_vars

----------------------------------------------------------------------------
(* Properties *)

CpuOnly == <<"CPUExecutionProvider">>

\* C1: for a [1,D,T] mel with T > 0 and D > 0 the frame-alignment step of
\* to_waveform yields a float32 [1,2T,D] array whose frames 2t and 2t+1 both
\* equal input frame t, for every t and every depth index.
C1_AlignDuplicatesFrames ==
    (last.op = "to_waveform" /\ last.mel.shape[2] > 0 /\ last.mel.shape[3] > 0) =>
        LET D == last.mel.shape[2]
            T == last.mel.shape[3]
            h == last.hubert
        IN  /\ h.shape = <<1, 2 * T, D>>
            /\ h.dtype = "float32"
            /\ DOMAIN h.at = (1..(2 * T)) \X (1..D)
            /\ \A t \in 0..(T - 1), d \in 1..D :
                /\ h.at[<<2 * t + 1, d>>] = last.mel.at[<<d, t + 1>>]
                /\ h.at[<<2 * t + 2, d>>] = last.mel.at[<<d, t + 1>>]

\* A float64 mel of two different frames and depth 2 has been aligned.
C1_Witness ==
    /\ last.op = "to_waveform"
    /\ last.mel.shape[2] >= 2
    /\ last.mel.shape[3] >= 2
    /\ last.mel.dtype = "float64"
    /\ last.mel.at[<<1, 1>>] # last.mel.at[<<1, 2>>]
    /\ last.hubert.shape[2] = 2 * last.mel.shape[3]

\* C2: whenever to_waveform invokes the vocoder engine, the hidden-feature,
\* pitch and pitch-coarse tracks it passes all have 2 * (mel frames) frames.
C2_TracksShareFrameCount ==
    (last.op = "to_waveform" /\ last.engineInvoked) =>
        LET T == last.mel.shape[3]
            in == last.engineIn
        IN  /\ in.hubert.shape[2] = 2 * T
            /\ in.pitchf.shape = <<1, 2 * T>>
            /\ in.pitch.shape = <<1, 2 * T>>
            /\ Len(in.pitchf.data) = 2 * T
            /\ Len(in.pitch.data) = 2 * T
            /\ in.hubert_length.data = <<2 * T>>

\* The engine ran on the tracks of a mel of at least two frames.
C2_Witness ==
    /\ last.op = "to_waveform"
    /\ last.engineInvoked
    /\ last.mel.shape[3] >= 2
    /\ Len(last.engineIn.pitch.data) = 4

AllIn(data, S) == \A i \in 1..Len(data) : data[i] \in S

\* C3: the pitch-coarse array that extract returns, and the one to_waveform
\* computes, is an integer array with every element in 1..255, and it is all
\* ones when the pitch track is all zero.
C3_CoarseInRange ==
    /\ (last.op = "extract" /\ last.returned) =>
        /\ last.f0_coarse.dtype = "int64"
        /\ Len(last.f0_coarse.data) = Len(last.buffer.data)
        /\ AllIn(last.f0_coarse.data, 1..255)
        /\ AllIn(last.buffer.data, {0}) => AllIn(last.f0_coarse.data, {1})
    /\ last.op = "to_waveform" =>
        /\ last.pitch.dtype = "int64"
        /\ AllIn(last.pitch.data, 1..255)

\* extract returned codes 1, 255 and one strictly between for a track holding
\* an unvoiced frame, an over-range frame and an in-range frame.
C3_Witness ==
    /\ last.op = "extract"
    /\ last.returned
    /\ \E i, j, k \in 1..Len(last.buffer.data) :
        /\ last.buffer.data[i] = 0 /\ last.f0_coarse.data[i] = 1
        /\ last.buffer.data[j] = 2200 /\ last.f0_coarse.data[j] = 255
        /\ last.buffer.data[k] = 880 /\ last.f0_coarse.data[k] \in 2..254

\* The inputs of an extract call whose checks pass and whose engine returns
ExtractRan ==
    /\ last.op = "extract"
    /\ Len(last.audio.shape) = 1
    /\ Len(last.pitchfIn.shape) = 1
    /\ ~last.eng.raises

\* C4: for a buffer of length L and an engine F0 array of length n with
\* 1 <= n <= L, extract leaves positions 0..L-n-1 as they were and writes the
\* shifted F0 values, in order, to positions L-n..L-1.
C4_RightAlignedWrite ==
    (ExtractRan /\ Len(last.eng.f0) >= 1 /\ Len(last.eng.f0) <= Len(last.pitchfIn.data)) =>
        LET L == Len(last.pitchfIn.data)
            n == Len(last.eng.f0)
        IN  /\ last.returned
            /\ Len(last.buffer.data) = L
            /\ \A i \in 1..(L - n) : last.buffer.data[i] = last.pitchfIn.data[i]
            /\ \A i \in 1..n :
                last.buffer.data[L - n + i] = Shift(last.eng.f0[i], last.f0_up_key)

\* C5: NSFHead.inference called with pitch_coarse and hidden_features of
\* different frame counts fails with a ShapeError without invoking the engine.
C5_MismatchRejected ==
    (last.op = "NSFHead.inference" /\ last.pitchIIn.shape[2] # last.hubertIn.shape[2]) =>
        /\ last.error.kind = "ShapeError"
        /\ ~last.engineInvoked

\* C6: the PCM conversion maps an engine sample of exactly 1.0 to 32767 and
\* one of exactly -1.0 to -32767, never to -32768.
C6_PcmFullScale ==
    (last.op \in {"NSFHead.inference", "to_waveform"}) =>
        /\ Len(last.pcm) = Len(last.wav)
        /\ \A i \in 1..Len(last.wav) :
            /\ last.wav[i] = 4 => last.pcm[i] = 32767
            /\ last.wav[i] = -4 => last.pcm[i] = -32767 /\ last.pcm[i] # -32768

\* forward converted a waveform holding both 1.0 and -1.0.
C6_Witness ==
    /\ last.op = "NSFHead.inference"
    /\ \E i, j \in 1..Len(last.wav) :
        /\ last.wav[i] = 4 /\ last.pcm[i] = 32767
        /\ last.wav[j] = -4 /\ last.pcm[j] = -32767

\* C7: constructing NSFHead or SSLFeatureExtractor with a device other than
\* "cpu" or None raises the unsupported-device error, creates no session and
\* yields no object to call; with "cpu" or None the session, when the model
\* file loads, is created with the CPU execution provider only.
C7_DeviceRejectedAtConstruction ==
    /\ (last.op \in {"NSFHead.__init__", "SSLFeatureExtractor.__init__"}) =>
        IF last.device \notin {"cpu", "None"}
        THEN /\ last.error.kind = "UnsupportedDeviceError"
             /\ ~last.sessionCreated
             /\ last.obj = Absent
        ELSE /\ last.error.kind # "UnsupportedDeviceError"
             /\ ~last.loadFails => /\ last.error = NoError
                                   /\ last.sessionCreated
                                   /\ last.obj.state = "ready"
                                   /\ last.obj.providers = CpuOnly
    /\ nsfhead.state = "ready" => nsfhead.providers = CpuOnly
    /\ ssl.state = "ready" => ssl.providers = CpuOnly

\* An NSFHead construction for "cuda" was refused while no head exists.
C7_Witness ==
    /\ last.op = "NSFHead.__init__"
    /\ last.device = "cuda"
    /\ ~last.loadFails
    /\ last.error.kind = "UnsupportedDeviceError"
    /\ nsfhead = Absent

\* The write of an engine result of n frames into a buffer of L frames fails.
WriteFails(n, L) == n = 1 \/ (n = 0 /\ L > 0)

\* C8: any failure inside extract (a dimensionality check, the engine call or
\* the buffer write) leaves extract by one extraction error carrying the class
\* name and the original exception; extract does not return normally.
C8_FailuresWrapped ==
    (/\ last.op = "extract"
     /\ \/ Len(last.audio.shape) # 1
        \/ Len(last.pitchfIn.shape) # 1
        \/ last.eng.raises
        \/ WriteFails(Len(last.eng.f0), Len(last.pitchfIn.data))) =>
        /\ ~last.returned
        /\ last.error.kind = "ExtractionError"
        /\ last.error.className = "RMVPEOnnxPitchExtractor"
        /\ last.error.cause.kind \in {"ShapeError", "EngineError", "IndexError", "ValueError"}
        /\ (Len(last.audio.shape) # 1 \/ Len(last.pitchfIn.shape) # 1)
              => last.error.cause.kind = "ShapeError"
        /\ (ExtractRan /\ last.eng.raises) => last.error.cause.kind = "EngineError"
        /\ last.buffer = last.pitchfIn

\* The engine raised inside an extract call whose arguments were well-formed.
C8_Witness ==
    /\ last.op = "extract"
    /\ Len(last.audio.shape) = 1
    /\ Len(last.pitchfIn.shape) = 1
    /\ last.eng.raises
    /\ last.error.kind = "ExtractionError"
    /\ last.error.cause.kind = "EngineError"

BadDims == last.op = "extract" /\ (Len(last.audio.shape) # 1 \/ Len(last.pitchfIn.shape) # 1)

\* C9 as stated: a call with a non-1-D audio or pitch buffer fails with an
\* error whose kind, as the caller sees it, is ShapeError, engine not invoked.
C9_CallerSeesShapeError ==
    BadDims => last.error.kind = "ShapeError" /\ ~last.engineInvoked

\* C9 amended: a call with a non-1-D audio or pitch buffer fails, without the
\* engine being invoked, with the extraction error, whose cause is the
\* ShapeError.
C9_ShapeErrorWrapped ==
    BadDims =>
        /\ ~last.returned
        /\ ~last.engineInvoked
        /\ last.error.kind = "ExtractionError"
        /\ last.error.cause.kind = "ShapeError"

\* extract refused a 2-D pitch buffer given with a 1-D audio.
C9_Witness ==
    /\ last.op = "extract"
    /\ Len(last.audio.shape) = 1
    /\ Len(last.pitchfIn.shape) = 2
    /\ last.error.kind = "ExtractionError"
    /\ last.error.cause.kind = "ShapeError"
    /\ ~last.engineInvoked

\* C10: to_waveform given a mel whose time axis has length 0 fails with an
\* EmptyInputError and neither constructs nor invokes the vocoder engine.
C10_EmptyMelRejected ==
    (last.op = "to_waveform" /\ last.mel.shape[3] = 0) =>
        /\ last.error.kind = "EmptyInputError"
        /\ ~last.sessionCreated
        /\ ~last.engineInvoked

\* C11: SSLFeatureExtractor.forward reduces a [samples, channels] input to 1-D
\* by averaging the channels of each sample position, and an input that is
\* not 1-D after that step fails with a shape error before the engine runs.
C11_MonoOrShapeError ==
    (last.op = "SSLFeatureExtractor.forward") =>
        LET w == last.wav
            nd == Len(w.shape)
        IN  /\ nd = 2 =>
                /\ last.engineInvoked
                /\ last.engineIn.shape = <<1, 1, w.shape[1]>>
                /\ \A i \in 1..w.shape[1] :
                    LET v == last.engineIn.at[<<1, 1, i>>]
                    IN  /\ v.den = w.shape[2]
                        /\ v.num = RowSum(w, i, w.shape[2])
            /\ nd = 1 =>
                /\ last.engineInvoked
                /\ last.engineIn.shape = <<1, 1, w.shape[1]>>
                /\ \A i \in 1..w.shape[1] : last.engineIn.at[<<1, 1, i>>] = w.at[<<i>>]
            /\ nd \notin {1, 2} =>
                /\ last.error.kind = "ShapeError"
                /\ ~last.engineInvoked

\* A two-channel input of two samples with unequal channels reached the
\* engine as their averages.
C11_Witness ==
    /\ last.op = "SSLFeatureExtractor.forward"
    /\ last.wav.shape = <<2, 2>>
    /\ last.wav.at[<<1, 1>>] # last.wav.at[<<1, 2>>]
    /\ last.wav.at[<<1, 1>>] # last.wav.at[<<2, 1>>]
    /\ last.engineInvoked
    /\ last.engineIn.at[<<1, 1, 1>>] = Rat(3, 2)

Started == run.pc # "not started"

Vocoded == Started /\ run.tw # Idle /\ run.tw.engineInvoked

\* C12: the speaker id the vocoder engine receives for an utterance is the
\* speaker id the caller supplied (--spk), as a length-1 int64 array.
C12_EngineGetsCallerSpeaker ==
    (Vocoded /\ run.spk.given) =>
        run.tw.engineIn.ds = Array(<<1>>, "int64", <<run.spk.id>>)

\* C13: on every engine invocation made by NSFHead.inference, whatever dtypes
\* the caller passed, the six inputs are hidden_features float32, hidden_length
\* int64, pitch_coarse int64, pitch_track float32, speaker_id int64 and noise
\* float32.
C13_EngineDtypesFixed ==
    (last.op = "NSFHead.inference" /\ last.engineInvoked) =>
        /\ last.engineIn.hubert.dtype = "float32"
        /\ last.engineIn.hubert_length.dtype = "int64"
        /\ last.engineIn.pitch.dtype = "int64"
        /\ last.engineIn.pitchf.dtype = "float32"
        /\ last.engineIn.ds.dtype = "int64"
        /\ last.engineIn.rnd.dtype = "float32"

SynthesizeCalled == last.op \in {"NSFHead.inference", "to_waveform"} /\ last.engineInvoked

\* C14: on every synthesize call with hidden features of shape [1, F, depth]
\* the hidden_length given to the engine is the length-1 array [F], and the
\* noise has shape [1, 192, F] and is a new draw of that call, never the draw
\* of an earlier call: it is the draw counted last by the generator, whose
\* count every call raises by one.
C14_LengthAndFreshNoise ==
    SynthesizeCalled =>
        LET F == last.engineIn.hubert.shape[2]
        IN  /\ last.engineIn.hubert_length = Array(<<1>>, "int64", <<F>>)
            /\ last.engineIn.rnd.shape = <<1, 192, F>>
            /\ last.engineIn.rnd.draw = rng

\* A second call, with two frames, got the second draw.
C14_Witness ==
    /\ last.op = "NSFHead.inference"
    /\ last.engineIn.hubert.shape = <<1, 2, 1>>
    /\ last.engineIn.rnd.shape = <<1, 192, 2>>
    /\ last.engineIn.rnd.draw = 2

\* C15: across the utterances of one run the vocoder's inference-engine
\* handle is initialized at most once, later utterances reusing it.
C15_EngineInitializedOnce ==
    Started => run.sessions <= 1

UpTo(m) == [k \in 1..m |-> k]

\* C16: unbatched_synthesis_nsf takes the utterances strictly in input order
\* and none twice; when utterance k fails (acoustic model, to_waveform or file
\* writing) the run has ended with nothing after k attempted or written, and
\* the outputs of the utterances before k are the ones written.
C16_InOrderAbortOnFailure ==
    Started =>
        /\ run.attempted = UpTo(Len(run.attempted))
        /\ run.written = UpTo(Len(run.written))
        /\ Len(run.attempted) <= run.n
        /\ run.failedAt = 0 => run.written = run.attempted
        /\ run.failedAt # 0 =>
            /\ run.pc = "aborted"
            /\ run.attempted = UpTo(run.failedAt)
            /\ run.written = UpTo(run.failedAt - 1)

\* The second of three utterances failed in to_waveform: the first is
\* written, the third was never begun.
C16_Witness ==
    /\ Started
    /\ run.n = 3
    /\ run.failedAt = 2
    /\ run.tw # Idle
    /\ run.tw.error # NoError
    /\ run.written = <<1>>
    /\ run.attempted = <<1, 2>>

\* C20: a run of cli whose arguments pass validate_args and whose model and
\* engine calls do not fail ends with every input text line synthesized and
\* its waveform file written, also with --batched and more than one line.
C20_EveryLineWritten ==
    (Started /\ run.pc = "done") => run.written = UpTo(run.n)

\* C17: extract discards the int(0.01 * sample_rate) leading audio samples
\* before calling the pitch engine, whatever the warm-start offset
\* (silence_front) and the frame hop (window) are: calls that differ only in
\* those two arguments give the engine the same trimmed audio.
C17_FixedLeadIn ==
    (last.op = "extract" /\ last.engineInvoked) =>
        /\ last.engineIn.data =
               SubSeq(last.audio.data, last.sr \div 100 + 1, Len(last.audio.data))
        /\ \A w \in Windows, sf \in SilenceFronts :
               ExtractResult(last.audio, last.pitchfIn, last.f0_up_key, last.sr,
                             w, sf, last.eng).engineIn = last.engineIn

\* A call with a warm-start offset of one second and three samples of audio
\* at 100 Hz gave the engine the last two samples.
C17_Witness ==
    /\ last.op = "extract"
    /\ last.engineInvoked
    /\ last.silence_front = 1
    /\ last.window = 1
    /\ last.sr = 100
    /\ last.audio.data = <<1, 2, 3>>
    /\ last.engineIn.data = <<2, 3>>

PcmMade == last.op \in {"NSFHead.inference", "to_waveform"} /\ last.engineInvoked /\ last.pcm # <<>>

\* C18 as stated: for every engine output sample v in [-1, 1] the PCM sample
\* made by NSFHead.forward is the integer nearest to v * 32767 (samples are
\* in quarters, so the distance is at most 2 quarters), as a 16-bit integer.
C18_PcmRoundedToNearest ==
    PcmMade =>
        \A i \in 1..Len(last.wav) :
            LET d == 4 * last.pcm[i] - last.wav[i] * 32767
            IN  /\ -2 <= d /\ d <= 2
                /\ -32768 <= last.pcm[i] /\ last.pcm[i] <= 32767

\* C18 as the code has it: the PCM sample is v * 32767 with its fraction
\* dropped, towards zero, as a 16-bit integer.
C18_PcmTruncatedTowardsZero ==
    PcmMade =>
        \A i \in 1..Len(last.wav) :
            LET x == last.wav[i] * 32767
                p == last.pcm[i]
            IN  /\ x >= 0 => (4 * p <= x /\ x < 4 * p + 4)
                /\ x < 0 => (4 * p - 4 < x /\ x <= 4 * p)
                /\ -32768 <= p /\ p <= 32767

\* forward converted the sample -0.25, whose product -8191.75 is nearer to
\* -8192, to -8191.
C18_Witness ==
    /\ PcmMade
    /\ \E i \in 1..Len(last.wav) : last.wav[i] = -1 /\ last.pcm[i] = -8191

\* C19: whenever extract returns normally for a pitch buffer of length L, the
\* returned pitch-coarse array and the returned pitch track both have length
\* L, for every engine F0 length n >= 2; when n > L (and when n = L) the
\* whole buffer holds the first L shifted F0 values.
C19_ReturnedLengths ==
    (last.op = "extract" /\ last.returned) =>
        LET L == Len(last.pitchfIn.data)
            n == Len(last.eng.f0)
        IN  /\ last.buffer.shape = <<L>>
            /\ Len(last.buffer.data) = L
            /\ last.f0_coarse.shape = <<L>>
            /\ Len(last.f0_coarse.data) = L
            /\ (n >= 2 /\ n >= L) =>
                \A i \in 1..L : last.buffer.data[i] = Shift(last.eng.f0[i], last.f0_up_key)

\* extract returned for a buffer of length 2 and an F0 of three frames whose
\* first two are not its last two.
C19_Witness ==
    /\ last.op = "extract"
    /\ last.returned
    /\ Len(last.pitchfIn.data) = 2
    /\ Len(last.eng.f0) = 3
    /\ last.eng.f0[1] # last.eng.f0[2]
    /\ last.eng.f0[2] # last.eng.f0[3]
    /\ Len(last.f0_coarse.data) = 2
    /\ last.buffer.data[1] = Shift(last.eng.f0[1], last.f0_up_key)

\* C21: for every utterance saved by save_to_folder the three output files
\* (the PNG plot, the mel-array file and the WAV file) are written inside the
\* requested output folder under the utterance's base name, and the WAV is
\* written at 40000 Hz.
C21_FilesInsideFolder ==
    (last.op = "save_to_folder" /\ last.error = NoError) =>
        /\ {f.ext : f \in last.files} = {"png", "npy", "wav"}
        /\ \A f \in last.files :
            /\ f.dir = Resolve(last.cwd, last.folder)
            /\ f.base = last.filename
            /\ f.ext = "wav" => f.samplerate = 40000

====
